---- MODULE Spec2Model ----
(***************************************************************************)
(* Model of the stateful utilities of the startup-file collection:         *)
(*   - timer.py    : the Stopwatch class (start/stop/reset, properties,    *)
(*                   context-manager protocol, decorate)                   *)
(*   - history.py  : the History class over the readline history buffer    *)
(*   - completer.py: Completer.read_history / save_history                 *)
(*                                                                         *)
(* Times are floats in the source; here they are integer ticks.  The       *)
(* source's attribute names are kept (_running, _count, ...).              *)
(***************************************************************************)
EXTENDS Integers, Sequences, FiniteSets, TLC

\* ------------------------------------------------------------------------
\* Bounds of the model
\* ------------------------------------------------------------------------
\* largest timer reading
MaxTime == 4
\* largest advance of the timer between two consultations
MaxStep == 2
\* largest value of the run counter
MaxCount == 3
\* most lines in the history buffer
MaxBuf == 2
\* most lines in a history file that was not written by readline
MaxFileLen == 1
\* largest history_length given to History(...)
MaxHistLen == 1
\* deepest nesting of with-blocks / decorated calls
MaxDepth == 2
\* largest warning cutoff
MaxCutoff == 1

\* ------------------------------------------------------------------------
\* Optional values: Python's None and a deleted attribute are the empty
\* tuple, a present value x is <<x>>.
\* ------------------------------------------------------------------------
None == <<>>
Some(x) == <<x>>
Val(o) == o[1]

Min(a, b) == IF a <= b THEN a ELSE b

VARIABLES
    \* --- the timer function (timer.py:83-85) ---
    clock,        \* the last reading the timer function returned
    \* --- Stopwatch instance attributes ---
    verbose,      \* self.verbose
    cutoff,       \* self.cutoff: None or Some(seconds)
    _running,     \* self._running
    _count,       \* self._count
    _start,       \* self._start: None when the attribute is deleted
    _elapsed,     \* self._elapsed
    _total,       \* self._total
    \* --- what the last operation did, as its caller can observe it ---
    lastOp,       \* name of the last operation called
    consulted,    \* number of calls of self.timer() made by the last operation
    warned,       \* number of calls of self.warn() made by the last operation
    reported,     \* number of calls of self.report() made by the last operation
    lastRead,     \* Some(value) when the last operation read elapsed or total, else None
    exitRet,      \* value __exit__ returned when the last operation called it, else "-"
    outcome,      \* how the block ended when the last operation left one, else "-"
    pre,          \* the Stopwatch attributes before the last operation, when it was a
                  \* call of start, stop, reset, __enter__ or __exit__ (else NoPre)
    bodyRet,      \* Some(value) the timed code returned when the last operation left
                  \* a block without an exception, else None
    innerRet,     \* Some(value) the wrapper returned to its caller then, or None
                  \* when it let an exception out or no block was left
    exitCalls,    \* number of calls of __exit__ made by the last operation
    \* --- control state of the code using the stopwatch ---
    depth,        \* number of open with-blocks / decorated calls
    raising,      \* an exception raised by timed code is propagating
    \* --- history variables of the properties (what the calls so far amount to) ---
    h_open,       \* reading at the start that is in effect, or None
    h_sum,        \* sum of the intervals completed since the last reset
    h_starts,     \* number of starts that took effect since the last reset
    h_last,       \* length of the interval completed last since the last reset, or 0
    h_nest        \* the nest of enter/exit pairs in progress or just ended

VARIABLES
    \* --- the readline library and the file system (history.py, completer.py) ---
    buffer,       \* the readline history buffer: the lines, oldest first
    rlLength,     \* the length set by readline.set_history_length (-1: unlimited)
    fs,           \* path -> [lines: None or Some(lines), writable: BOOLEAN]
    exitFuncs,    \* the paths atexit will call readline.write_history_file with
    \* --- the History instance and the Completer instance ---
    history,      \* None before History(...) is called, else
                  \* Some([history_file |-> ..., history_length |-> ...])
    completer,    \* [history_file |-> ...] of the Completer instance
    \* --- what the last operation did, as its caller can observe it ---
    hLastOp,      \* name of the last operation called
    hTarget,      \* Some(path) the operation handed to readline, or None
    rlError,      \* the exception readline raised inside the operation, or "none"
    raised,       \* the exception the operation let out to its caller, or "none"
    hPre          \* the history buffer before the last operation

hVars == <<buffer, rlLength, fs, exitFuncs, history, completer,
           hLastOp, hTarget, rlError, raised, hPre>>

VARIABLES
    \* --- what the last display of the history did (history.py:130-167) ---
    sLastOp,      \* name of the last operation called
    sArgs,        \* the arguments it was called with
    printed,      \* the lines the call of the History instance printed, in order
    yielded       \* the items get_history_lines yielded, in order

showVars == <<sLastOp, sArgs, printed, yielded>>

VARIABLES
    \* --- edir (enhanced_dir.py) ---
    eObj,         \* the object edir is called with: the list its __dir__() gives
    eInteractive, \* hasattr(sys, 'ps1')
    eOmitAttr,    \* the attribute edir.omit: None when it is not set
    eArgs,        \* the arguments of the call: [glob, meta, omit, dunders], the
                  \* last two None when the keyword is not given
    eLastOp,      \* name of the last operation called
    eResult       \* what the call gave: [raised |-> exception or "none", names |-> list]

edirVars == <<eObj, eInteractive, eOmitAttr, eArgs, eLastOp, eResult>>

swFields == <<_running, _count, _start, _elapsed, _total>>
swVars == <<clock, verbose, cutoff, _running, _count, _start, _elapsed, _total,
            lastOp, consulted, warned, reported, lastRead, exitRet, outcome, pre,
            bodyRet, innerRet, exitCalls,
            depth, raising, h_open, h_sum, h_starts, h_last, h_nest>>

\* ------------------------------------------------------------------------
\* The timer function: timeit.default_timer or the tests' mock_time.  Each
\* consultation returns a reading not before the previous one.
\* ------------------------------------------------------------------------
TimerReadings == clock .. Min(clock + MaxStep, MaxTime)

Cutoffs == {None} \cup {Some(c) : c \in 1 .. MaxCutoff}

\* the last operation returned nothing the model records
NoResult == lastRead' = None /\ exitRet' = "-" /\ outcome' = "-"

Snapshot == [running |-> _running, count |-> _count, start |-> _start,
             elapsed |-> _elapsed, total |-> _total]
\* the last operation left no block
NoCall == bodyRet' = None /\ innerRet' = None /\ exitCalls' = 0

NoPre == [running |-> FALSE, count |-> 0, start |-> None, elapsed |-> 0, total |-> 0]

\* ------------------------------------------------------------------------
\* Stopwatch methods.  Each is the effect of the method on the instance
\* attributes, the timer and the warn/report call counts.
\* ------------------------------------------------------------------------

\* Stopwatch.running (property)
running == _running

\* Stopwatch.count (property)
count == _count

\* (variant: elapsed returns the stored value even while running)
elapsed_stored(t) == _elapsed

\* Stopwatch.elapsed (property), given the reading t the timer returns if
\* it is consulted
elapsed(t) == IF running THEN t - Val(_start) ELSE _elapsed

\* (variant: total returns the stored value even while running)
total_stored(t) == _total

\* Stopwatch.total (property), same convention
total(t) == IF running THEN _total + elapsed(t) ELSE _total

\* (variant: reset clears the figures but leaves a run in progress going)
reset_keeps_running ==
    /\ _count' = 0
    /\ _elapsed' = 0
    /\ _total' = 0
    /\ consulted' = 0
    /\ warned' = 0
    /\ reported' = 0
    /\ UNCHANGED <<clock, _start, _running>>

\* Stopwatch.reset
reset ==
    /\ _start' = None
    /\ _running' = FALSE
    /\ _count' = 0
    /\ _elapsed' = 0
    /\ _total' = 0
    /\ consulted' = 0
    /\ warned' = 0
    /\ reported' = 0
    /\ UNCHANGED clock

\* (variant: start without the "if not self._running" guard)
start_unguarded ==
    /\ _count < MaxCount
    /\ \E t \in TimerReadings :
          /\ clock' = t
          /\ _start' = Some(t)
    /\ _running' = TRUE
    /\ _count' = _count + 1
    /\ consulted' = 1
    /\ warned' = 0
    /\ reported' = 0
    /\ UNCHANGED <<_elapsed, _total>>

\* (variant: start that does not count the run)
start_uncounted ==
    IF ~_running
    THEN /\ \E t \in TimerReadings :
               /\ clock' = t
               /\ _start' = Some(t)
         /\ _running' = TRUE
         /\ consulted' = 1
         /\ warned' = 0
         /\ reported' = 0
         /\ UNCHANGED <<_count, _elapsed, _total>>
    ELSE /\ consulted' = 0
         /\ warned' = 0
         /\ reported' = 0
         /\ UNCHANGED <<clock, _running, _count, _start, _elapsed, _total>>

\* Stopwatch.start
start ==
    IF ~_running
    THEN /\ _count < MaxCount
         /\ \E t \in TimerReadings :
               /\ clock' = t
               /\ _start' = Some(t)
         /\ _running' = TRUE
         /\ _count' = _count + 1
         /\ consulted' = 1
         /\ warned' = 0
         /\ reported' = 0
         /\ UNCHANGED <<_elapsed, _total>>
    ELSE /\ consulted' = 0
         /\ warned' = 0
         /\ reported' = 0
         /\ UNCHANGED <<clock, _running, _count, _start, _elapsed, _total>>

\* (variant: stop assigns the elapsed time to _total instead of adding it)
stop_total_assigned ==
    IF _running
    THEN /\ \E t \in TimerReadings :
               /\ clock' = t
               /\ _elapsed' = t - Val(_start)
         /\ _running' = FALSE
         /\ _total' = _elapsed'
         /\ _start' = None
         /\ consulted' = 1
         /\ warned' = IF verbose /\ cutoff # None /\ _elapsed' < Val(cutoff)
                      THEN 1 ELSE 0
         /\ reported' = IF verbose THEN 1 ELSE 0
         /\ UNCHANGED _count
    ELSE /\ consulted' = 0
         /\ warned' = 0
         /\ reported' = 0
         /\ UNCHANGED <<clock, _running, _count, _start, _elapsed, _total>>

\* (variant: stop that leaves _running set)
stop_still_running ==
    IF _running
    THEN /\ \E t \in TimerReadings :
               /\ clock' = t
               /\ _elapsed' = t - Val(_start)
         /\ _total' = _total + _elapsed'
         /\ consulted' = 1
         /\ warned' = IF verbose /\ cutoff # None /\ _elapsed' < Val(cutoff)
                      THEN 1 ELSE 0
         /\ reported' = IF verbose THEN 1 ELSE 0
         /\ UNCHANGED <<_running, _start, _count>>
    ELSE /\ consulted' = 0
         /\ warned' = 0
         /\ reported' = 0
         /\ UNCHANGED <<clock, _running, _count, _start, _elapsed, _total>>

\* (variant: stop with the reporting outside the "if self._running" block)
stop_reports_always ==
    /\ IF _running
       THEN /\ \E t \in TimerReadings :
                  /\ clock' = t
                  /\ _elapsed' = t - Val(_start)
            /\ _running' = FALSE
            /\ _total' = _total + _elapsed'
            /\ _start' = None
            /\ consulted' = 1
            /\ UNCHANGED _count
       ELSE /\ consulted' = 0
            /\ UNCHANGED <<clock, _running, _count, _start, _elapsed, _total>>
    /\ warned' = IF verbose /\ cutoff # None /\ _elapsed' < Val(cutoff)
                 THEN 1 ELSE 0
    /\ reported' = IF verbose THEN 1 ELSE 0

\* (variant: stop reports whatever verbose says)
stop_reports_quiet ==
    IF _running
    THEN /\ \E t \in TimerReadings :
               /\ clock' = t
               /\ _elapsed' = t - Val(_start)
         /\ _running' = FALSE
         /\ _total' = _total + _elapsed'
         /\ _start' = None
         /\ consulted' = 1
         /\ warned' = IF verbose /\ cutoff # None /\ _elapsed' < Val(cutoff)
                      THEN 1 ELSE 0
         /\ reported' = 1
         /\ UNCHANGED _count
    ELSE /\ consulted' = 0
         /\ warned' = 0
         /\ reported' = 0
         /\ UNCHANGED <<clock, _running, _count, _start, _elapsed, _total>>

\* (variant: stop warns when the elapsed time equals the cutoff too)
stop_warns_at_cutoff ==
    IF _running
    THEN /\ \E t \in TimerReadings :
               /\ clock' = t
               /\ _elapsed' = t - Val(_start)
         /\ _running' = FALSE
         /\ _total' = _total + _elapsed'
         /\ _start' = None
         /\ consulted' = 1
         /\ warned' = IF verbose /\ cutoff # None /\ _elapsed' <= Val(cutoff)
                      THEN 1 ELSE 0
         /\ reported' = IF verbose THEN 1 ELSE 0
         /\ UNCHANGED _count
    ELSE /\ consulted' = 0
         /\ warned' = 0
         /\ reported' = 0
         /\ UNCHANGED <<clock, _running, _count, _start, _elapsed, _total>>

\* Stopwatch.stop; the read of self.elapsed at line 125 happens after
\* _running was cleared, so it returns the new _elapsed without the timer
stop ==
    IF _running
    THEN /\ \E t \in TimerReadings :
               /\ clock' = t
               /\ _elapsed' = t - Val(_start)
         /\ _running' = FALSE
         /\ _total' = _total + _elapsed'
         /\ _start' = None
         /\ consulted' = 1
         /\ warned' = IF verbose /\ cutoff # None /\ _elapsed' < Val(cutoff)
                      THEN 1 ELSE 0
         /\ reported' = IF verbose THEN 1 ELSE 0
         /\ UNCHANGED _count
    ELSE /\ consulted' = 0
         /\ warned' = 0
         /\ reported' = 0
         /\ UNCHANGED <<clock, _running, _count, _start, _elapsed, _total>>

\* Stopwatch.__enter__
__enter__ == start

\* (variant: __exit__ ends with "return True")
ExitValueTrue == "True"

\* the value Stopwatch.__exit__ returns: the method has no return statement
ExitValue == "None"

\* Stopwatch.__exit__
__exit__ ==
    /\ stop
    /\ exitRet' = ExitValue

\* truth value of a Python object, for the values __exit__ can return
Truthy(v) == v \notin {"None", "False"}

\* ------------------------------------------------------------------------
\* History variables: what the calls made so far amount to, in the words of
\* the documentation (class docstring, timer.py:48-57).  They are updated
\* from the kind of call and the timer, never from the Stopwatch attributes.
\* ------------------------------------------------------------------------
HistStart ==
    IF h_open = None
    THEN /\ h_open' = Some(clock')
         /\ h_starts' = h_starts + 1
         /\ UNCHANGED <<h_sum, h_last>>
    ELSE UNCHANGED <<h_open, h_sum, h_starts, h_last>>

HistStop ==
    IF h_open # None
    THEN /\ h_last' = clock' - Val(h_open)
         /\ h_sum' = h_sum + h_last'
         /\ h_open' = None
         /\ UNCHANGED h_starts
    ELSE UNCHANGED <<h_open, h_sum, h_starts, h_last>>

HistReset ==
    /\ h_open' = None
    /\ h_sum' = 0
    /\ h_starts' = 0
    /\ h_last' = 0

\* a nest: clean is TRUE while only enter/exit calls were made since an
\* outermost enter that found the stopwatch stopped; t0 is the clock after
\* that enter, n0 the count and s0 the total before it, open whether the
\* nest is in progress, exited whether an exit was made in it, nested
\* whether an enter was made inside it
NoNest == [open |-> FALSE, clean |-> FALSE, t0 |-> 0, n0 |-> 0, s0 |-> 0,
           exited |-> FALSE, nested |-> FALSE]

\* a nest in progress that is not clean
Unclean == [open |-> TRUE, clean |-> FALSE, t0 |-> 0, n0 |-> 0, s0 |-> 0,
            exited |-> FALSE, nested |-> FALSE]

\* a finished nest is remembered for the one state after its last exit
KeepNest == h_nest' = IF h_nest.open THEN h_nest ELSE NoNest

\* a call of start(), stop() or reset() made by hand
Spoil == h_nest' = IF h_nest.open THEN Unclean ELSE NoNest

HistEnter ==
    /\ HistStart
    /\ h_nest' = IF depth > 0
                 THEN IF h_nest.clean THEN [h_nest EXCEPT !.nested = TRUE]
                      ELSE h_nest
                 ELSE IF h_open = None
                 THEN [open |-> TRUE, clean |-> TRUE, t0 |-> clock',
                       n0 |-> h_starts, s0 |-> h_sum,
                       exited |-> FALSE, nested |-> FALSE]
                 ELSE Unclean

HistExit ==
    /\ HistStop
    /\ h_nest' = IF h_nest.clean
                 THEN [h_nest EXCEPT !.open = (depth > 1), !.exited = TRUE]
                 ELSE IF depth > 1 THEN Unclean ELSE NoNest

\* ------------------------------------------------------------------------
\* Initial state: a Stopwatch as __init__ leaves it (it ends with reset()),
\* constructed with any verbose and cutoff.
\* ------------------------------------------------------------------------
SwInit ==
    /\ clock = 0
    /\ verbose \in BOOLEAN
    /\ cutoff \in Cutoffs
    /\ _running = FALSE
    /\ _count = 0
    /\ _start = None
    /\ _elapsed = 0
    /\ _total = 0
    /\ lastOp = "init"
    /\ consulted = 0
    /\ warned = 0
    /\ reported = 0
    /\ lastRead = None
    /\ exitRet = "-"
    /\ outcome = "-"
    /\ pre = NoPre
    /\ bodyRet = None
    /\ innerRet = None
    /\ exitCalls = 0
    /\ depth = 0
    /\ raising = FALSE
    /\ h_open = None
    /\ h_sum = 0
    /\ h_starts = 0
    /\ h_last = 0
    /\ h_nest = NoNest

\* ------------------------------------------------------------------------
\* Operations on the stopwatch, as the code using it calls them.  While an
\* exception propagates nothing but the exits of the open blocks runs.
\* ------------------------------------------------------------------------

\* sw.start()
CallStart ==
    /\ ~raising
    /\ start
    /\ HistStart
    /\ Spoil
    /\ lastOp' = "start"
    /\ pre' = Snapshot
    /\ NoResult
    /\ UNCHANGED <<verbose, cutoff, depth, raising>>
    /\ NoCall
    /\ UNCHANGED <<hVars, showVars, edirVars>>

\* sw.stop()
CallStop ==
    /\ ~raising
    /\ stop
    /\ HistStop
    /\ Spoil
    /\ lastOp' = "stop"
    /\ pre' = Snapshot
    /\ NoResult
    /\ UNCHANGED <<verbose, cutoff, depth, raising>>
    /\ NoCall
    /\ UNCHANGED <<hVars, showVars, edirVars>>

\* sw.reset()
CallReset ==
    /\ ~raising
    /\ reset
    /\ HistReset
    /\ Spoil
    /\ lastOp' = "reset"
    /\ pre' = Snapshot
    /\ NoResult
    /\ UNCHANGED <<verbose, cutoff, depth, raising>>
    /\ NoCall
    /\ UNCHANGED <<hVars, showVars, edirVars>>

\* x = sw.elapsed
ReadElapsed ==
    /\ ~raising
    /\ IF running
       THEN \E t \in TimerReadings :
               /\ clock' = t
               /\ lastRead' = Some(elapsed(t))
               /\ consulted' = 1
       ELSE /\ lastRead' = Some(elapsed(clock))
            /\ consulted' = 0
            /\ UNCHANGED clock
    /\ warned' = 0
    /\ reported' = 0
    /\ lastOp' = "elapsed"
    /\ pre' = NoPre
    /\ exitRet' = "-"
    /\ outcome' = "-"
    /\ UNCHANGED <<swFields, verbose, cutoff, depth, raising, h_open, h_sum, h_starts, h_last>>
    /\ KeepNest
    /\ NoCall
    /\ UNCHANGED <<hVars, showVars, edirVars>>

\* x = sw.total
ReadTotal ==
    /\ ~raising
    /\ IF running
       THEN \E t \in TimerReadings :
               /\ clock' = t
               /\ lastRead' = Some(total(t))
               /\ consulted' = 1
       ELSE /\ lastRead' = Some(total(clock))
            /\ consulted' = 0
            /\ UNCHANGED clock
    /\ warned' = 0
    /\ reported' = 0
    /\ lastOp' = "total"
    /\ pre' = NoPre
    /\ exitRet' = "-"
    /\ outcome' = "-"
    /\ UNCHANGED <<swFields, verbose, cutoff, depth, raising, h_open, h_sum, h_starts, h_last>>
    /\ KeepNest
    /\ NoCall
    /\ UNCHANGED <<hVars, showVars, edirVars>>

\* sw.verbose = v ; sw.cutoff = c (public attributes)
SetAttrs ==
    /\ ~raising
    /\ verbose' \in BOOLEAN
    /\ cutoff' \in Cutoffs
    /\ <<verbose', cutoff'>> # <<verbose, cutoff>>
    /\ lastOp' = "set"
    /\ consulted' = 0
    /\ warned' = 0
    /\ reported' = 0
    /\ pre' = NoPre
    /\ NoResult
    /\ UNCHANGED <<clock, swFields, depth, raising, h_open, h_sum, h_starts, h_last>>
    /\ KeepNest
    /\ NoCall
    /\ UNCHANGED <<hVars, showVars, edirVars>>

\* ------------------------------------------------------------------------
\* The stopwatch as a context manager: "with sw:" and a call of a function
\* wrapped by Stopwatch.decorate (inner, timer.py:213-239, which spells the
\* with statement out by hand).  Both call __enter__, run the timed code,
\* and call __exit__ exactly once.
\* ------------------------------------------------------------------------

\* entering the block: value = type(stopwatch).__enter__(stopwatch), line 225
Enter ==
    /\ ~raising
    /\ depth < MaxDepth
    /\ __enter__
    /\ HistEnter
    /\ depth' = depth + 1
    /\ lastOp' = "enter"
    /\ pre' = Snapshot
    /\ NoResult
    /\ UNCHANGED <<verbose, cutoff, raising>>
    /\ NoCall
    /\ UNCHANGED <<hVars, showVars, edirVars>>

\* the timed code (the with-block's body, or function(*args, **kwargs) at
\* line 230) raises an exception
BodyRaise ==
    /\ ~raising
    /\ depth > 0
    /\ raising' = TRUE
    /\ lastOp' = "raise"
    /\ consulted' = 0
    /\ warned' = 0
    /\ reported' = 0
    /\ pre' = NoPre
    /\ NoResult
    /\ UNCHANGED <<clock, swFields, verbose, cutoff, depth, h_open, h_sum, h_starts, h_last>>
    /\ KeepNest
    /\ NoCall
    /\ UNCHANGED <<hVars, showVars, edirVars>>

\* the values the timed code can return (None is Python's None)
RetValues == {"None", "x"}

\* (variant: the wrapper calls the function without returning its value)
InnerReturn_dropped(v) == "None"

\* what the wrapper returns when the function returned v (line 230:
\* "return function(*args, **kwargs)")
InnerReturn(v) == v

\* the flag exc at the finally clause (lines 227, 232, 238), r telling
\* whether the except clause ran
exc_flag(r) == ~r

\* the calls of exit(stopwatch, ...) one call of the wrapper makes: one in
\* the except clause when the function raised (line 233), one in the
\* finally clause when exc is still true (lines 238-239)
InnerExitCalls(r) == (IF r THEN 1 ELSE 0) + (IF exc_flag(r) THEN 1 ELSE 0)

\* leaving the block.  With an exception in flight __exit__ gets the
\* exception and its return value decides (lines 231-235: "if not
\* exit(stopwatch, *sys.exc_info()): raise"): true swallows the exception,
\* false lets it go on to the enclosing block or, from the outermost block,
\* to the caller.  Without one, __exit__ is called with None, None, None
\* (lines 236-239) and its value is ignored.
Exit ==
    /\ depth > 0
    /\ __exit__
    /\ HistExit
    /\ depth' = depth - 1
    /\ outcome' = IF ~raising THEN "returned"
                  ELSE IF Truthy(exitRet') THEN "suppressed"
                  ELSE "propagated"
    /\ raising' = (raising /\ ~Truthy(exitRet') /\ depth' > 0)
    /\ \E v \in RetValues :
          /\ bodyRet' = IF raising THEN None ELSE Some(v)
          /\ innerRet' = IF ~raising THEN Some(InnerReturn(v))
                         ELSE IF Truthy(exitRet') THEN Some("None")
                         ELSE None
    /\ exitCalls' = InnerExitCalls(raising)
    /\ lastOp' = "exit"
    /\ pre' = Snapshot
    /\ lastRead' = None
    /\ UNCHANGED <<verbose, cutoff>>
    /\ UNCHANGED <<hVars, showVars, edirVars>>

\* ------------------------------------------------------------------------
\* The readline library and the files, as history.py and completer.py use
\* them.  A history file is a text file, one history line per line.
\* ------------------------------------------------------------------------

\* the history lines there are
Lines == {"a", "b"}

\* file names as callers write them, and the paths of the files
Names == {"~/.python_history", "/tmp/hist"}
Paths == {"/home/user/.python_history", "/tmp/hist"}

\* os.path.expanduser: a leading "~" becomes the home directory
expanduser(name) ==
    IF name = "~/.python_history" THEN "/home/user/.python_history" ELSE name

\* sequences over S of length lo..hi
SeqsOf(S, lo, hi) == UNION {[1 .. n -> S] : n \in lo .. hi}

\* the last n elements of s
LastN(s, n) == IF Len(s) <= n THEN s ELSE SubSeq(s, Len(s) - n + 1, Len(s))

\* readline.read_history_file(path), called when the history buffer is
\* buf: appends the lines of the file to the buffer; a file that is missing
\* or cannot be read raises IOError (an OSError) and leaves the buffer as
\* it was
read_history_file(buf, path) ==
    IF fs[path].lines = None
    THEN /\ rlError' = "IOError"
         /\ buffer' = buf
    ELSE /\ Len(buf) + Len(Val(fs[path].lines)) <= MaxBuf
         /\ rlError' = "none"
         /\ buffer' = buf \o Val(fs[path].lines)

\* readline.write_history_file(path): writes the buffer to the file, cut to
\* the last rlLength lines when a length is set; a target that cannot be
\* written raises IOError (an OSError); the buffer is not changed
write_history_file(path) ==
    /\ UNCHANGED buffer
    /\ IF ~fs[path].writable
       THEN /\ rlError' = "IOError"
            /\ UNCHANGED fs
       ELSE /\ rlError' = "none"
            /\ fs' = [fs EXCEPT ![path].lines =
                         Some(IF rlLength < 0 THEN buffer
                              ELSE LastN(buffer, rlLength))]

\* readline.clear_history(): the buffer it leaves
clear_history == <<>>

\* (variant: the except clause names another exception)
CaughtOnRead_other == {"ValueError"}

\* the exceptions "except (IOError, OSError)" catches
CaughtOnRead == {"IOError", "OSError"}

\* ------------------------------------------------------------------------
\* History methods (history.py) and Completer methods (completer.py): the
\* effect on the buffer, the files and the exception let out to the caller.
\* filename is None or Some(name).
\* ------------------------------------------------------------------------

\* History.read_history, called when the history buffer is buf
History_read_history(buf, filename) ==
    LET name == IF filename = None THEN Val(history).history_file
                ELSE Val(filename)
        path == expanduser(name)
    IN  /\ hTarget' = Some(path)
        /\ read_history_file(buf, path)
        /\ raised' = IF rlError' \in CaughtOnRead THEN "none" ELSE rlError'
        /\ UNCHANGED fs

\* (variant: load_history without the call of readline.clear_history())
History_load_history_appending(filename) ==
    History_read_history(buffer, filename)

\* History.load_history: readline.clear_history(), then self.read_history
History_load_history(filename) ==
    History_read_history(clear_history, filename)

\* (variant: write_history wrapped in try/except like read_history)
History_write_history_caught(filename) ==
    LET name == IF filename = None THEN Val(history).history_file
                ELSE Val(filename)
        path == expanduser(name)
    IN  /\ hTarget' = Some(path)
        /\ write_history_file(path)
        /\ raised' = IF rlError' \in CaughtOnRead THEN "none" ELSE rlError'

\* History.write_history
History_write_history(filename) ==
    LET name == IF filename = None THEN Val(history).history_file
                ELSE Val(filename)
        path == expanduser(name)
    IN  /\ hTarget' = Some(path)
        /\ write_history_file(path)
        /\ raised' = rlError'

\* Completer.read_history: the name is used as given
Completer_read_history(filename) ==
    LET name == IF filename = None THEN completer.history_file
                ELSE Val(filename)
    IN  IF name # ""
        THEN /\ hTarget' = Some(name)
             /\ read_history_file(buffer, name)
             /\ raised' = IF rlError' \in CaughtOnRead THEN "none" ELSE rlError'
             /\ UNCHANGED fs
        ELSE /\ hTarget' = None
             /\ rlError' = "none"
             /\ raised' = "none"
             /\ UNCHANGED <<buffer, fs>>

\* Completer.save_history: the name is used as given
Completer_save_history(filename) ==
    LET name == IF filename = None THEN completer.history_file
                ELSE Val(filename)
    IN  IF name # ""
        THEN /\ hTarget' = Some(name)
             /\ write_history_file(name)
             /\ raised' = rlError'
        ELSE /\ hTarget' = None
             /\ rlError' = "none"
             /\ raised' = "none"
             /\ UNCHANGED <<buffer, fs>>

\* History.DEFAULT_HISTORY_FILE, History.DEFAULT_HISTORY_LENGTH
DEFAULT_HISTORY_FILE == "~/.python_history"
DEFAULT_HISTORY_LENGTH == 500

\* the arguments a caller passes for filename / history_file
FileArgs == {None} \cup {Some(n) : n \in Names}
\* the names a caller passes to the Completer methods, which do not expand
CompleterArgs == {None, Some("")} \cup {Some(p) : p \in Paths}

FileStates == [lines : {None} \cup {Some(c) : c \in SeqsOf(Lines, 0, MaxFileLen)},
               writable : BOOLEAN]

\* ------------------------------------------------------------------------
\* Initial state of the history side: nothing typed yet, any files, no
\* History instance yet, the Completer instance made with a history_file
\* (already expanded by Completer.__init__, lines 78-81).
\* ------------------------------------------------------------------------
HInit ==
    /\ buffer = <<>>
    /\ rlLength = -1
    /\ fs \in [Paths -> FileStates]
    /\ exitFuncs = <<>>
    /\ history = None
    /\ completer = [history_file |-> "/tmp/hist"]
    /\ hLastOp = "init"
    /\ hTarget = None
    /\ rlError = "none"
    /\ raised = "none"
    /\ hPre = <<>>

\* ------------------------------------------------------------------------
\* Operations on the history, as the interactive session makes them.
\* ------------------------------------------------------------------------

\* (variant: _enable without readline.set_history_length)
NewHistory_without_length ==
    /\ hLastOp # "exit"
    /\ history = None
    /\ \E hf \in FileArgs, hl \in {None} \cup {Some(n) : n \in 1 .. MaxHistLen} :
          LET file == expanduser(IF hf = None THEN DEFAULT_HISTORY_FILE ELSE Val(hf))
              len == IF hl = None THEN DEFAULT_HISTORY_LENGTH ELSE Val(hl)
          IN  /\ history' = Some([history_file |-> file, history_length |-> len])
              /\ History_read_history(buffer, Some(file))
              /\ UNCHANGED rlLength
              /\ exitFuncs' = Append(exitFuncs, file)
    /\ hLastOp' = "History"
    /\ hPre' = buffer
    /\ UNCHANGED completer
    /\ UNCHANGED <<swVars, showVars, edirVars>>

\* history = History(history_file, history_length): __init__ and _enable
NewHistory ==
    /\ hLastOp # "exit"
    /\ history = None
    /\ \E hf \in FileArgs, hl \in {None} \cup {Some(n) : n \in 1 .. MaxHistLen} :
          LET file == expanduser(IF hf = None THEN DEFAULT_HISTORY_FILE ELSE Val(hf))
              len == IF hl = None THEN DEFAULT_HISTORY_LENGTH ELSE Val(hl)
          IN  /\ history' = Some([history_file |-> file, history_length |-> len])
              /\ History_read_history(buffer, Some(file))
              /\ rlLength' = len
              /\ exitFuncs' = Append(exitFuncs, file)
    /\ hLastOp' = "History"
    /\ hPre' = buffer
    /\ UNCHANGED completer
    /\ UNCHANGED <<swVars, showVars, edirVars>>

\* history.read_history(filename)
CallReadHistory ==
    /\ hLastOp # "exit"
    /\ history # None
    /\ \E f \in FileArgs : History_read_history(buffer, f)
    /\ hLastOp' = "read_history"
    /\ hPre' = buffer
    /\ UNCHANGED <<rlLength, exitFuncs, history, completer>>
    /\ UNCHANGED <<swVars, showVars, edirVars>>

\* history.load_history(filename)
CallLoadHistory ==
    /\ hLastOp # "exit"
    /\ history # None
    /\ \E f \in FileArgs : History_load_history(f)
    /\ hLastOp' = "load_history"
    /\ hPre' = buffer
    /\ UNCHANGED <<rlLength, exitFuncs, history, completer>>
    /\ UNCHANGED <<swVars, showVars, edirVars>>

\* history.write_history(filename)
CallWriteHistory ==
    /\ hLastOp # "exit"
    /\ history # None
    /\ \E f \in FileArgs : History_write_history(f)
    /\ hLastOp' = "write_history"
    /\ hPre' = buffer
    /\ UNCHANGED <<rlLength, exitFuncs, history, completer>>
    /\ UNCHANGED <<swVars, showVars, edirVars>>

\* completer.read_history(filename)
CallCompleterRead ==
    /\ hLastOp # "exit"
    /\ \E f \in CompleterArgs : Completer_read_history(f)
    /\ hLastOp' = "Completer.read_history"
    /\ hPre' = buffer
    /\ UNCHANGED <<rlLength, exitFuncs, history, completer>>
    /\ UNCHANGED <<swVars, showVars, edirVars>>

\* completer.save_history(filename)
CallCompleterSave ==
    /\ hLastOp # "exit"
    /\ \E f \in CompleterArgs : Completer_save_history(f)
    /\ hLastOp' = "Completer.save_history"
    /\ hPre' = buffer
    /\ UNCHANGED <<rlLength, exitFuncs, history, completer>>
    /\ UNCHANGED <<swVars, showVars, edirVars>>

\* the user enters a line at the prompt: readline adds it to the buffer
TypeLine ==
    /\ hLastOp # "exit"
    /\ Len(buffer) < MaxBuf
    /\ \E l \in Lines : buffer' = Append(buffer, l)
    /\ hLastOp' = "input"
    /\ hTarget' = None
    /\ rlError' = "none"
    /\ raised' = "none"
    /\ hPre' = buffer
    /\ UNCHANGED <<rlLength, fs, exitFuncs, history, completer>>
    /\ UNCHANGED <<swVars, showVars, edirVars>>

\* something outside the session changes a file: removes it, or changes
\* whether it can be written
FileChange ==
    /\ hLastOp # "exit"
    /\ \E p \in Paths :
          \/ /\ fs[p].lines # None
             /\ fs' = [fs EXCEPT ![p].lines = None]
          \/ fs' = [fs EXCEPT ![p].writable = ~fs[p].writable]
    /\ hLastOp' = "files"
    /\ hTarget' = None
    /\ rlError' = "none"
    /\ raised' = "none"
    /\ hPre' = buffer
    /\ UNCHANGED <<buffer, rlLength, exitFuncs, history, completer>>
    /\ UNCHANGED <<swVars, showVars, edirVars>>

\* ------------------------------------------------------------------------
\* Displaying the history (history.py:130-167)
\* ------------------------------------------------------------------------

\* the number of lines shown by default
MAX_LINES_TO_SHOW == 10

Max(a, b) == IF a >= b THEN a ELSE b

\* Python's range(a, b) as a sequence
range(a, b) == [k \in 1 .. Max(b - a, 0) |-> a + k - 1]

\* readline.get_current_history_length()
get_current_history_length == Len(buffer)

\* readline.get_history_item(i): the line numbered i, counting from 1, or
\* Python's None when there is no such line
get_history_item(i) ==
    IF 1 <= i /\ i <= Len(buffer) THEN Some(buffer[i]) ELSE None

\* History.get_history_lines(start, end), start written start_ here, end
\* being None or Some(number):
\* the items the generator yields, in order
History_get_history_lines(start_, end) ==
    LET e == IF end = None THEN get_current_history_length ELSE Val(end)
        r == range(start_, e + 1)
    IN  [k \in 1 .. Len(r) |-> get_history_item(r[k])]

\* the two templates of History.__call__ applied to a line number and an
\* item: "%(lineno)3d:  %(line)s" gives the number, the separator and the
\* line, "%(line)s" the line alone
Template(show_line_numbers) ==
    IF show_line_numbers THEN "%(lineno)3d:  %(line)s" ELSE "%(line)s"

Format(template, lineno, line) ==
    LET text == IF line = None THEN "None" ELSE Val(line)
    IN  IF template = "%(lineno)3d:  %(line)s"
        THEN <<lineno, ":  ", text>>
        ELSE <<text>>

\* zip(a, b) followed by the loop body: one printed line per pair
ZipPrint(template, nums, lines) ==
    [k \in 1 .. Min(Len(nums), Len(lines)) |-> Format(template, nums[k], lines[k])]

\* (variant: the first line shown is computed as end - count)
History_call_one_more(cnt, show_line_numbers) ==
    LET c == IF cnt = None THEN MAX_LINES_TO_SHOW ELSE Val(cnt)
        end == get_current_history_length
        start_ == IF c < 0 THEN 1 ELSE Max(end - c, 1)
        nums == range(start_, end + 1)
        lines == History_get_history_lines(start_, Some(end))
    IN  ZipPrint(Template(show_line_numbers), nums, lines)

\* History.__call__(count, show_line_numbers), count being None or
\* Some(number): the lines it prints, in order
History_call(cnt, show_line_numbers) ==
    LET c == IF cnt = None THEN MAX_LINES_TO_SHOW ELSE Val(cnt)
        end == get_current_history_length
        start_ == IF c < 0 THEN 1 ELSE Max(end - c + 1, 1)
        nums == range(start_, end + 1)
        lines == History_get_history_lines(start_, Some(end))
    IN  ZipPrint(Template(show_line_numbers), nums, lines)

\* the longest buffer displayed, and the buffers displayed: line i is "a"
\* for odd i, "b" for even i
MaxShowBuf == 11

ShowBuffers ==
    {[i \in 1 .. n |-> IF i % 2 = 1 THEN "a" ELSE "b"] : n \in 0 .. MaxShowBuf}

\* the arguments the calls are made with
ShowCounts == {None} \cup {Some(c) : c \in -2 .. MaxShowBuf + 1}
ShowStarts == 0 .. MaxShowBuf + 1
ShowEnds == {None} \cup {Some(e) : e \in 0 .. MaxShowBuf + 1}

NoArgs == [count |-> None, show_line_numbers |-> FALSE, start |-> 0, end |-> None]

\* no display was made
ShowIdle ==
    /\ sLastOp = "init"
    /\ sArgs = NoArgs
    /\ printed = <<>>
    /\ yielded = <<>>

\* history(count, show_line_numbers)
CallHistory ==
    /\ \E c \in ShowCounts, show \in BOOLEAN :
          /\ sArgs' = [NoArgs EXCEPT !.count = c, !.show_line_numbers = show]
          /\ printed' = History_call(c, show)
    /\ sLastOp' = "call"
    /\ yielded' = <<>>
    /\ UNCHANGED <<swVars, hVars, edirVars>>

\* list(history.get_history_lines(start, end))
CallGetHistoryLines ==
    /\ \E st \in ShowStarts, e \in ShowEnds :
          /\ sArgs' = [NoArgs EXCEPT !.start = st, !.end = e]
          /\ yielded' = History_get_history_lines(st, e)
    /\ sLastOp' = "get_history_lines"
    /\ printed' = <<>>
    /\ UNCHANGED <<swVars, hVars, edirVars>>

ShowNext ==
    \/ CallHistory
    \/ CallGetHistoryLines

\* the interpreter exits: atexit calls the registered functions, last
\* registered first (History registers one, history.py:88); an exception in
\* one of them is reported and not raised further; nothing runs afterwards
InterpreterExit ==
    /\ hLastOp # "exit"
    /\ IF exitFuncs = <<>>
       THEN /\ hTarget' = None
            /\ rlError' = "none"
            /\ UNCHANGED <<buffer, fs>>
       ELSE /\ hTarget' = Some(exitFuncs[Len(exitFuncs)])
            /\ write_history_file(exitFuncs[Len(exitFuncs)])
    /\ raised' = "none"
    /\ hLastOp' = "exit"
    /\ hPre' = buffer
    /\ UNCHANGED <<rlLength, exitFuncs, history, completer>>
    /\ UNCHANGED <<swVars, showVars, edirVars>>

HNext ==
    \/ InterpreterExit
    \/ NewHistory
    \/ CallReadHistory
    \/ CallLoadHistory
    \/ CallWriteHistory
    \/ CallCompleterRead
    \/ CallCompleterSave
    \/ TypeLine
    \/ FileChange

\* ------------------------------------------------------------------------
\* edir (enhanced_dir.py).  A Python string is the sequence of its
\* characters; a list of names is a sequence of strings.
\* ------------------------------------------------------------------------

\* the code points of the characters in use
Ord == [c \in {"!", "*", "=", "?", "A", "B", "[", "]", "_", "a", "b", "m"} |->
          CASE c = "!" -> 33 [] c = "*" -> 42 [] c = "=" -> 61 [] c = "?" -> 63
            [] c = "A" -> 65 [] c = "B" -> 66 [] c = "[" -> 91 [] c = "]" -> 93
            [] c = "_" -> 95 [] c = "a" -> 97 [] c = "b" -> 98 [] c = "m" -> 109]

\* s < t for Python strings: by code points, a proper prefix first
RECURSIVE StrLess(_, _)
StrLess(s, t) ==
    IF t = <<>> THEN FALSE
    ELSE IF s = <<>> THEN TRUE
    ELSE IF Head(s) # Head(t) THEN Ord[Head(s)] < Ord[Head(t)]
    ELSE StrLess(Tail(s), Tail(t))

\* sorted(S) of a set of strings
RECURSIVE SortedSet(_)
SortedSet(S) ==
    IF S = {} THEN <<>>
    ELSE LET m == CHOOSE x \in S : \A y \in S \ {x} : StrLess(x, y)
         IN  <<m>> \o SortedSet(S \ {m})

\* set(names)
set(names) == {names[i] : i \in DOMAIN names}

\* the number of times x occurs in names
Occurrences(names, x) == Cardinality({i \in DOMAIN names : names[i] = x})

\* x repeated n times
RECURSIVE Repeat(_, _)
Repeat(x, n) == IF n = 0 THEN <<>> ELSE <<x>> \o Repeat(x, n - 1)

\* sorted(names) of a list of strings: every item stays, equal items side
\* by side
RECURSIVE SortedRuns(_, _)
SortedRuns(distinct, names) ==
    IF distinct = <<>> THEN <<>>
    ELSE Repeat(Head(distinct), Occurrences(names, Head(distinct)))
            \o SortedRuns(Tail(distinct), names)

sorted(names) == SortedRuns(SortedSet(set(names)), names)

\* str.casefold, on the characters in use
FoldChar(c) == IF c = "A" THEN "a" ELSE IF c = "B" THEN "b" ELSE c

casefold(str) == [i \in DOMAIN str |-> FoldChar(str[i])]

\* s.startswith(prefix), s.endswith(suffix), sub in s
startswith(str, prefix) ==
    Len(prefix) <= Len(str) /\ SubSeq(str, 1, Len(prefix)) = prefix

endswith(str, suffix) ==
    Len(suffix) <= Len(str)
       /\ SubSeq(str, Len(str) - Len(suffix) + 1, Len(str)) = suffix

Contains(str, sub) ==
    \E i \in 0 .. Len(str) - Len(sub) : SubSeq(str, i + 1, i + Len(sub)) = sub

\* fnmatch.translate, the scan for the end of a character set: pat[1] is
\* "[", the result is the index of the "]" that closes the set, or 0 when
\* there is none (a "!" right after "[" and a "]" right after that are
\* skipped first)
ClassEnd(pat) ==
    LET j1 == IF Len(pat) >= 2 /\ pat[2] = "!" THEN 3 ELSE 2
        j2 == IF Len(pat) >= j1 /\ pat[j1] = "]" THEN j1 + 1 ELSE j1
        closing == {j \in j2 .. Len(pat) : pat[j] = "]"}
    IN  IF closing = {} THEN 0
        ELSE CHOOSE j \in closing : \A k \in closing : j <= k

\* fnmatch.fnmatchcase(name, pat): "*" matches any run of characters, "?"
\* any one character, "[seq]" one character of seq, "[!seq]" one character
\* not in seq, a "[" that is never closed itself, any other character
\* itself; the whole name has to match.  (Ranges "a-c" in a set do not occur:
\* "-" is not among the characters in use.)
RECURSIVE fnmatchcase(_, _)
fnmatchcase(name, pat) ==
    IF pat = <<>> THEN name = <<>>
    ELSE IF Head(pat) = "*"
    THEN \E k \in 0 .. Len(name) :
            fnmatchcase(SubSeq(name, k + 1, Len(name)), Tail(pat))
    ELSE IF name = <<>> THEN FALSE
    ELSE IF Head(pat) = "?" THEN fnmatchcase(Tail(name), Tail(pat))
    ELSE IF Head(pat) = "[" /\ ClassEnd(pat) # 0
    THEN LET j == ClassEnd(pat)
             stuff == SubSeq(pat, 2, j - 1)
             negated == Head(stuff) = "!"
             members == set(IF negated THEN Tail(stuff) ELSE stuff)
         IN  /\ (Head(name) \in members) # negated
             /\ fnmatchcase(Tail(name), SubSeq(pat, j + 1, Len(pat)))
    ELSE Head(name) = Head(pat) /\ fnmatchcase(Tail(name), Tail(pat))

\* _ismagic, _isdunder
_ismagic(str) == startswith(str, <<"_">>)

\* (variant: a name is a dunder name when it ends with "__")
_isdunder_end_only(str) == endswith(str, <<"_", "_">>)

_isdunder(str) == startswith(str, <<"_", "_">>) /\ endswith(str, <<"_", "_">>)

\* (variant: "[" is not taken for a metacharacter)
MetaChars_without_bracket == {"*", "?"}

\* the characters _matcher looks for: '*?['
MetaChars == {"*", "?", "["}

\* _matcher(glob, invert)(name): the match function it returns, applied
_matcher(glob, invert, name) ==
    LET orig == IF \E i \in DOMAIN glob : glob[i] \in MetaChars
                THEN fnmatchcase(name, glob)
                ELSE Contains(name, glob)
    IN  IF invert THEN ~orig ELSE orig

\* (variant: the prefix "!" is tested before the prefix "!=")
_filter_bang_first(names, glob) ==
    IF glob = <<>> THEN names
    ELSE LET invert == startswith(glob, <<"!">>)
             case_sensitive == ~invert /\ startswith(glob, <<"=">>)
             cut == IF invert \/ case_sensitive THEN 1 ELSE 0
             rest == SubSeq(glob, cut + 1, Len(glob))
             g == IF case_sensitive THEN rest ELSE casefold(rest)
             Keep(nm) == IF case_sensitive THEN _matcher(g, invert, nm)
                         ELSE _matcher(g, invert, casefold(nm))
         IN  SelectSeq(names, Keep)

\* _filter(names, glob)
_filter(names, glob) ==
    IF glob = <<>> THEN names
    ELSE LET invert == startswith(glob, <<"!">>)
             case_sensitive == startswith(glob, <<"!", "=">>)
                                  \/ (~invert /\ startswith(glob, <<"=">>))
             cut == IF startswith(glob, <<"!", "=">>) THEN 2
                    ELSE IF invert \/ case_sensitive THEN 1 ELSE 0
             rest == SubSeq(glob, cut + 1, Len(glob))
             g == IF case_sensitive THEN rest ELSE casefold(rest)
             Keep(nm) == IF case_sensitive THEN _matcher(g, invert, nm)
                         ELSE _matcher(g, invert, casefold(nm))
         IN  SelectSeq(names, Keep)

\* the result of a call: the list returned, or the exception raised
Returned(names) == [raised |-> "none", names |-> names]
Raised(exc) == [raised |-> exc, names |-> <<>>]

\* _filter_magic(names, omit)
_filter_magic(names, omit) ==
    LET NotMagic(nm) == ~_ismagic(nm)
        NotDunder(nm) == ~_isdunder(nm)
    IN  IF omit \notin {0, 1, 2} THEN Raised("ValueError")
        ELSE IF omit = 2 THEN Returned(SelectSeq(names, NotMagic))
        ELSE IF omit = 1 THEN Returned(SelectSeq(names, NotDunder))
        ELSE Returned(names)

\* the builtin dir(obj): the list obj.__dir__() gives, sorted
original_dir(obj) == sorted(obj)

\* dir(metaclass), the same for every object here
MetaDir == << <<"A", "b">>, <<"m">> >>

\* _getattrnames(obj, meta)
_getattrnames(obj, meta) ==
    LET names == original_dir(obj) \o (IF meta THEN MetaDir ELSE <<>>)
    IN  SortedSet(set(names))

\* edir(obj, glob, meta=meta, omit=omit, **kwargs): omit is None when not
\* given, kwargs are the keywords left after glob, meta and omit were
\* popped (lines 286-288); any left raises TypeError (lines 301-302),
\* before the names are got and filtered
edir(obj, glob, meta, omit, kwargs) ==
    LET om == IF omit # None THEN Val(omit)
              ELSE IF eInteractive
              THEN (IF eOmitAttr = None THEN 0 ELSE Val(eOmitAttr))
              ELSE 0
        names == _getattrnames(obj, meta)
    IN  IF DOMAIN kwargs # {} THEN Raised("TypeError")
        ELSE _filter_magic(_filter(names, glob), om)

\* the attribute names there are, and the longest list __dir__() gives
EdirNames ==
    { <<"a">>, <<"A", "b">>, <<"b", "a">>, <<"_", "a">>,
      <<"_", "_", "b", "_", "_">>, <<"a", "_", "_">> }

MaxDir == 2

EdirObjects == SeqsOf(EdirNames, 0, MaxDir)

\* the globs edir is called with
EdirGlobs ==
    { <<>>, <<"a">>, <<"B">>, <<"a", "b">>, <<"_">>, <<"_", "_">>,
      <<"*">>, <<"a", "*">>, <<"*", "A">>, <<"?", "b">>, <<"b", "?">>,
      <<"[", "a", "b", "]">>, <<"[", "!", "a", "]", "*">>, <<"[", "a">>,
      <<"[", "A", "]", "b">>,
      <<"!", "a">>, <<"=", "A">>, <<"=", "a">>, <<"!", "=", "a", "*">>,
      <<"!">> }

EdirOmits == {None} \cup {Some(n) : n \in 0 .. 3}

DefaultArgs == [glob |-> <<>>, meta |-> FALSE, omit |-> None, dunders |-> None]

\* the calls made: edir(obj, glob, meta=..., omit=...), and
\* edir(obj, dunders=...) as in the module docstring (line 26)
EdirCalls ==
    [glob : EdirGlobs, meta : BOOLEAN, omit : EdirOmits, dunders : {None}]
       \cup {[DefaultArgs EXCEPT !.dunders = Some(v)] : v \in BOOLEAN}

\* the keywords of a call other than glob, meta and omit
OtherKeywords(args) ==
    IF args.dunders = None THEN <<>>
    ELSE [k \in {"dunders"} |-> Val(args.dunders)]

\* edir not called, in a script
EdirIdle ==
    /\ eObj = <<>>
    /\ eInteractive = FALSE
    /\ eOmitAttr = None
    /\ eArgs = DefaultArgs
    /\ eLastOp = "init"
    /\ eResult = Returned(<<>>)

\* an object, a session and the arguments of a call
EdirInit ==
    /\ eObj \in EdirObjects
    /\ eInteractive \in BOOLEAN
    /\ eOmitAttr \in {None, Some(2)}
    /\ eArgs \in EdirCalls
    /\ eLastOp = "init"
    /\ eResult = Returned(<<>>)

\* edir(obj, glob, meta=..., omit=...)
CallEdir ==
    /\ eLastOp = "init"
    /\ eResult' = edir(eObj, eArgs.glob, eArgs.meta, eArgs.omit, OtherKeywords(eArgs))
    /\ eLastOp' = "edir"
    /\ UNCHANGED <<eObj, eInteractive, eOmitAttr, eArgs>>
    /\ UNCHANGED <<swVars, hVars, showVars>>

EdirNext ==
    \/ CallEdir

SwNext ==
    \/ CallStart
    \/ CallStop
    \/ CallReset
    \/ ReadElapsed
    \/ ReadTotal
    \/ SetAttrs
    \/ Enter
    \/ BodyRaise
    \/ Exit

vars == <<swVars, hVars, showVars, edirVars>>

\* the history side before anything is done with it
HIdle ==
    /\ HInit
    /\ fs = [p \in Paths |-> [lines |-> None, writable |-> TRUE]]

\* a stopwatch made with the defaults and not used
SwIdle ==
    /\ SwInit
    /\ verbose
    /\ cutoff = Some(1)

\* the Stopwatch in use
Init == SwInit /\ HIdle /\ ShowIdle /\ EdirIdle
Spec == Init /\ [][SwNext]_vars

\* the history in use
HistInit == HInit /\ SwIdle /\ ShowIdle /\ EdirIdle
HistSpec == HistInit /\ [][HNext]_vars

\* a History instance made with the defaults over a buffer with lines, and
\* its display
ShowInit ==
    /\ buffer \in ShowBuffers
    /\ rlLength = DEFAULT_HISTORY_LENGTH
    /\ fs = [p \in Paths |-> [lines |-> None, writable |-> TRUE]]
    /\ exitFuncs = <<expanduser(DEFAULT_HISTORY_FILE)>>
    /\ history = Some([history_file |-> expanduser(DEFAULT_HISTORY_FILE),
                        history_length |-> DEFAULT_HISTORY_LENGTH])
    /\ completer = [history_file |-> "/tmp/hist"]
    /\ hLastOp = "init"
    /\ hTarget = None
    /\ rlError = "none"
    /\ raised = "none"
    /\ hPre = <<>>
    /\ SwIdle
    /\ ShowIdle
    /\ EdirIdle
ShowSpec == ShowInit /\ [][ShowNext]_vars

\* edir called on an object
EdirSpecInit == SwIdle /\ HIdle /\ ShowIdle /\ EdirInit
EdirSpec == EdirSpecInit /\ [][EdirNext]_vars

\* ========================================================================
\* Properties of the Stopwatch
\* ========================================================================

\* C1: in every reachable state the accumulated total (what total reports
\* while the stopwatch is not running) equals the sum of the intervals
\* completed since the last reset, an interval being completed by a stop
\* issued while running and lasting from the reading at its start to the
\* reading at that stop.
C1_TotalIsSumOfCompleted ==
    /\ _total = h_sum
    /\ (~running => total(clock) = h_sum)

\* two runs of positive length were completed and added up
C1_Witness ==
    /\ lastOp = "stop"
    /\ pre.running
    /\ _elapsed > 0
    /\ _total > _elapsed
    /\ h_starts = 2

\* C2: a new Stopwatch is not running; running is True after start() or
\* __enter__ and False after stop(), __exit__ or reset(); in every state
\* running is True exactly when a start has taken effect that no later stop
\* or reset has ended.  The attribute _start exists exactly while running.
C2_RunningIffStartInEffect ==
    /\ running = (h_open # None)
    /\ running = (_start # None)
    /\ (lastOp = "init" => ~running)
    /\ (lastOp \in {"start", "enter"} => running)
    /\ (lastOp \in {"stop", "exit", "reset"} => ~running)

\* the exit of a with-block has stopped a stopwatch its enter had started
C2_Witness ==
    /\ lastOp = "exit"
    /\ pre.running
    /\ ~running
    /\ depth = 0

\* C3 as stated: when the timed code raises, __exit__ returns a true value
\* and the exception is suppressed.
C3_ExitSuppresses ==
    (lastOp = "exit" /\ outcome # "returned")
        => (Truthy(exitRet) /\ outcome = "suppressed")

\* C3 amended: when the timed code raises, __exit__ stops the stopwatch and
\* returns None, a false value, so the exception is not suppressed: it
\* propagates to the enclosing block or the caller.
C3_ExitPropagates ==
    (lastOp = "exit" /\ outcome # "returned")
        => (exitRet = "None" /\ ~Truthy(exitRet) /\ outcome = "propagated"
            /\ ~running)

\* the timed code raised while the stopwatch ran, and the outermost exit
\* stopped it and let the exception through
C3_Witness ==
    /\ lastOp = "exit"
    /\ outcome = "propagated"
    /\ pre.running
    /\ depth = 0
    /\ ~raising

\* C4 as stated: in a nest of enter/exit pairs (entered with the stopwatch
\* stopped, no other calls inside) the stopwatch stays running until the
\* outermost exit, and the nest is recorded as one timing from the
\* outermost enter to the outermost exit.
C4_RunsUntilOutermostExit ==
    /\ (h_nest.open /\ h_nest.clean => running)
    /\ (lastOp = "exit" /\ ~h_nest.open /\ h_nest.clean
            => /\ count = h_nest.n0 + 1
               /\ _elapsed = clock - h_nest.t0)

\* C4 amended: enter/exit pairs may be nested but are not counted.  An enter
\* while running has no effect; the first exit reached while running stops
\* the stopwatch and records one timing, from the enter that started it to
\* that exit; an exit while stopped has no effect.  So a nest is running,
\* as one timing begun at the outermost enter, only until its first exit.
C4_RunsUntilFirstExit ==
    /\ (h_nest.open /\ h_nest.clean /\ ~h_nest.exited
            => /\ running
               /\ _start = Some(h_nest.t0)
               /\ count = h_nest.n0 + 1)
    /\ (lastOp = "enter" /\ pre.running => Snapshot = pre /\ consulted = 0)
    /\ (lastOp = "exit" => ~running)
    /\ (lastOp = "exit" /\ pre.running
            => /\ _elapsed = clock - Val(pre.start)
               /\ _total = pre.total + _elapsed
               /\ count = pre.count)
    /\ (lastOp = "exit" /\ ~pre.running => Snapshot = pre /\ consulted = 0)

\* the inner exit of a two-deep nest has stopped the stopwatch while the
\* outer block is still open
C4_Witness ==
    /\ lastOp = "exit"
    /\ depth = 1
    /\ h_nest.open
    /\ h_nest.clean
    /\ pre.running
    /\ ~running
    /\ _elapsed > 0

\* C7: start() on a running Stopwatch has no effect: count, the recorded
\* start time, the last elapsed value and the total are unchanged and the
\* timer function is not consulted.
C7_StartWhileRunningNoEffect ==
    (lastOp = "start" /\ pre.running) => (Snapshot = pre /\ consulted = 0)

\* start() was called on a stopwatch started earlier, after the timer moved on
C7_Witness ==
    /\ lastOp = "start"
    /\ pre.running
    /\ clock > Val(_start)

\* C8: stop() on a stopped Stopwatch has no effect: count, elapsed and total
\* are unchanged, the timer is not consulted, and neither warn() nor
\* report() is called, whatever verbose and cutoff are.
C8_StopWhileStoppedNoEffect ==
    (lastOp = "stop" /\ ~pre.running)
        => (Snapshot = pre /\ consulted = 0 /\ warned = 0 /\ reported = 0)

\* stop() was called on a stopped stopwatch that has run, with verbose set and
\* the last elapsed time below the cutoff
C8_Witness ==
    /\ lastOp = "stop"
    /\ ~pre.running
    /\ count > 0
    /\ verbose
    /\ cutoff # None
    /\ _elapsed < Val(cutoff)

\* C9: count is 0 on a new Stopwatch, increases by exactly 1 at each start
\* that takes effect (so it counts the run in progress), is not changed by
\* stop(), and so equals the number of runs started since the last reset.
C9_CountIsNumberOfRuns ==
    /\ count = h_starts
    /\ (lastOp = "init" => count = 0)
    /\ (lastOp \in {"start", "enter"} /\ ~pre.running => count = pre.count + 1)
    /\ (lastOp \in {"start", "enter"} /\ pre.running => count = pre.count)
    /\ (lastOp \in {"stop", "exit"} => count = pre.count)

\* the second start();stop() pair has just ended
C9_Witness ==
    /\ lastOp = "stop"
    /\ pre.running
    /\ count = 2

\* C10: elapsed is 0 before any run; while running each read returns the
\* timer reading of that read minus the reading at start; once stopped it
\* is the reading at stop minus the reading at start, and reads return that
\* value without consulting the timer.
C10_Elapsed ==
    /\ (h_starts = 0 => elapsed(clock) = 0)
    /\ (~running => _elapsed = h_last)
    /\ (lastOp = "elapsed" /\ running
            => lastRead = Some(clock - Val(h_open)) /\ consulted = 1)
    /\ (lastOp = "elapsed" /\ ~running
            => lastRead = Some(h_last) /\ consulted = 0)
    /\ (lastOp \in {"stop", "exit"} /\ pre.running
            => _elapsed = clock - Val(pre.start))

\* elapsed was read while running, some time after the start
C10_Witness ==
    /\ lastOp = "elapsed"
    /\ running
    /\ lastRead # None
    /\ Val(lastRead) > 0
    /\ consulted = 1

\* ========================================================================
\* Properties of the history
\* ========================================================================
ReadOps == {"History", "read_history", "load_history", "Completer.read_history"}
WriteOps == {"write_history", "Completer.save_history"}

\* C5: reading a history file that is missing or unreadable is caught and
\* ignored: History(...), History.read_history, History.load_history and
\* Completer.read_history return without raising, and all but load_history
\* (which has cleared the buffer first) leave the history buffer unchanged.
C5_MissingFileIgnoredOnRead ==
    (hLastOp \in ReadOps /\ hTarget # None /\ fs[Val(hTarget)].lines = None)
        => /\ raised = "none"
           /\ (hLastOp # "load_history" => buffer = hPre)
           /\ (hLastOp = "load_history" => buffer = <<>>)

\* read_history met a missing file while the buffer held lines
C5_Witness ==
    /\ hLastOp = "read_history"
    /\ rlError = "IOError"
    /\ hTarget # None
    /\ fs[Val(hTarget)].lines = None
    /\ buffer # <<>>

\* C6 as stated: writing to a target that cannot be written is caught and
\* ignored: write_history and save_history return without raising and the
\* buffer is unchanged.
C6_WriteErrorIgnored ==
    (hLastOp \in WriteOps /\ hTarget # None /\ ~fs[Val(hTarget)].writable)
        => (raised = "none" /\ buffer = hPre)

\* C6 amended: writing to a target that cannot be written is not caught:
\* write_history and save_history let readline's IOError out to the caller;
\* the buffer is unchanged.
C6_WriteErrorPropagates ==
    (hLastOp \in WriteOps /\ hTarget # None /\ ~fs[Val(hTarget)].writable)
        => (raised = "IOError" /\ buffer = hPre)

\* write_history met a target it could not write while the buffer held lines
C6_Witness ==
    /\ hLastOp = "write_history"
    /\ hTarget # None
    /\ ~fs[Val(hTarget)].writable
    /\ rlError = "IOError"
    /\ buffer # <<>>

\* ------------------------------------------------------------------------
\* Properties of total, reset, report and warn
\* ------------------------------------------------------------------------

\* C11: a read of total made while running returns the total of the
\* completed runs plus the time the run in progress has lasted at that
\* read, with one timer reading; a stop that ends a run adds that run's
\* elapsed time to the total, and reads made while stopped return the total
\* of the completed runs without consulting the timer.
C11_TotalWhileRunning ==
    /\ (lastOp = "total" /\ running) =>
          /\ lastRead = Some(h_sum + (clock - Val(h_open)))
          /\ consulted = 1
    /\ (lastOp = "total" /\ ~running) =>
          /\ lastRead = Some(h_sum)
          /\ consulted = 0
    /\ (lastOp \in {"stop", "exit"} /\ pre.running) =>
          /\ _total = pre.total + _elapsed
          /\ _total = h_sum

\* a read made during the second run, some time after its start
C11_Witness ==
    /\ lastOp = "total"
    /\ running
    /\ count = 2
    /\ h_sum > 0
    /\ clock > Val(_start)
    /\ lastRead = Some(h_sum + (clock - Val(_start)))

\* C12: reset() leaves count 0, total 0, elapsed 0 and running false,
\* whatever was done before and also while running; the first run after it
\* gives count 1 and a total equal to that run's elapsed time, as on a new
\* Stopwatch.
C12_ResetClears ==
    /\ lastOp = "reset" =>
          /\ count = 0
          /\ ~running
          /\ total(clock) = 0
          /\ elapsed(clock) = 0
          /\ _start = None
    /\ (h_starts = 1 /\ lastOp = "stop" /\ pre.running) =>
          /\ count = 1
          /\ _total = _elapsed

\* a reset made during the second run, after a first run that took time
C12_Witness ==
    /\ lastOp = "reset"
    /\ pre.running
    /\ pre.count = 2
    /\ pre.total > 0
    /\ count = 0

\* C13: report() is called once by a stop that ends a run when verbose is
\* true at that moment, and by nothing else.
C13_ReportIffVerbose ==
    reported = IF lastOp \in {"stop", "exit"} /\ pre.running /\ verbose
               THEN 1 ELSE 0

\* a second run ended with verbose true and no cutoff
C13_Witness ==
    /\ lastOp = "stop"
    /\ pre.running
    /\ count = 2
    /\ verbose
    /\ cutoff = None
    /\ reported = 1

\* C14: warn() is called by a stop that ends a run exactly when verbose is
\* true, cutoff is not None and the elapsed time just recorded is strictly
\* less than cutoff.
C14_WarnIffBelowCutoff ==
    warned = IF /\ lastOp \in {"stop", "exit"}
                /\ pre.running
                /\ verbose
                /\ cutoff # None
                /\ _elapsed < Val(cutoff)
             THEN 1 ELSE 0

\* a run shorter than the cutoff ended with verbose true
C14_Witness ==
    /\ lastOp = "stop"
    /\ pre.running
    /\ verbose
    /\ cutoff # None
    /\ _elapsed < Val(cutoff)
    /\ warned = 1

\* ------------------------------------------------------------------------
\* Properties of Stopwatch.decorate
\* ------------------------------------------------------------------------

\* a call of the decorated function has just returned to top level, it was
\* made while the stopwatch was stopped and nothing but decorated calls
\* used the stopwatch during it
TopLevelCallEnded == lastOp = "exit" /\ depth = 0 /\ h_nest.clean

\* what holds after every call of the wrapper: __exit__ was called once,
\* and a value the function returned was passed through
EachCall ==
    lastOp = "exit" =>
       /\ exitCalls = 1
       /\ outcome = "returned" => (bodyRet # None /\ innerRet = bodyRet)
       /\ outcome = "propagated" => (bodyRet = None /\ innerRet = None)

\* C15 as stated: after each top-level call of a decorated function, count
\* has increased by 1, the stopwatch is not running, total has grown by
\* that call's elapsed time and the return value was passed through.
C15_TopLevelCallCountsOnce ==
    /\ EachCall
    /\ TopLevelCallEnded =>
          /\ count = h_nest.n0 + 1
          /\ ~running
          /\ _total = h_nest.s0 + _elapsed

\* C15, amended: the same for a top-level call during which the function
\* made no nested call of itself.
C15_FlatCallCountsOnce ==
    /\ EachCall
    /\ (TopLevelCallEnded /\ ~h_nest.nested) =>
          /\ count = h_nest.n0 + 1
          /\ ~running
          /\ _total = h_nest.s0 + _elapsed

\* the second call of a decorated function returned a value after some time
C15_Witness ==
    /\ TopLevelCallEnded
    /\ ~h_nest.nested
    /\ h_nest.n0 = 1
    /\ h_nest.s0 > 0
    /\ _elapsed > 0
    /\ outcome = "returned"
    /\ innerRet = Some("x")
    /\ exitCalls = 1

\* ------------------------------------------------------------------------
\* Properties of the History methods
\* ------------------------------------------------------------------------

\* the lines of the file the last operation handed to readline (none when
\* the file is missing)
TargetLines ==
    IF fs[Val(hTarget)].lines = None THEN <<>> ELSE Val(fs[Val(hTarget)].lines)

\* C16: read_history(f) keeps the lines that were in the buffer and appends
\* the lines of f after them; load_history(f) replaces the buffer, which
\* afterwards holds exactly the lines of f.
C16_ReadAppendsLoadReplaces ==
    /\ hLastOp = "read_history" => buffer = hPre \o TargetLines
    /\ hLastOp = "load_history" => buffer = TargetLines

\* load_history of a file with a line, made when the buffer held another line
C16_Witness ==
    /\ hLastOp = "load_history"
    /\ Len(hPre) > 0
    /\ Len(TargetLines) > 0
    /\ hPre # TargetLines
    /\ buffer = TargetLines

\* the number of lines a call with the arguments sArgs is to print
Wanted ==
    LET n == Len(buffer)
        c == IF sArgs.count = None THEN 10 ELSE Val(sArgs.count)
    IN  IF c < 0 THEN n ELSE Min(c, n)

\* C17: calling the History instance with count prints the latest
\* min(count, n) lines of the n lines of the buffer, oldest first, each
\* with its position in the buffer counted from 1 when show_line_numbers is
\* true; count None stands for 10, a negative count prints all the lines,
\* count 0 prints nothing.  get_history_lines(start, end) yields the lines
\* numbered start to end inclusive, end defaulting to the buffer length.
C17_ShowsLatestLines ==
    /\ sLastOp = "call" =>
          /\ Len(printed) = Wanted
          /\ \A j \in 1 .. Len(printed) :
                LET pos == Len(buffer) - Wanted + j
                IN  printed[j] = IF sArgs.show_line_numbers
                                 THEN <<pos, ":  ", buffer[pos]>>
                                 ELSE <<buffer[pos]>>
    /\ sLastOp = "get_history_lines" =>
          LET e == IF sArgs.end = None THEN Len(buffer) ELSE Val(sArgs.end)
          IN  (1 <= sArgs.start /\ e <= Len(buffer)) =>
                 /\ Len(yielded) = Max(e - sArgs.start + 1, 0)
                 /\ \A j \in 1 .. Len(yielded) :
                       yielded[j] = Some(buffer[sArgs.start + j - 1])

\* the default count over a buffer of more than ten lines, with numbers
C17_Witness ==
    /\ sLastOp = "call"
    /\ sArgs.count = None
    /\ sArgs.show_line_numbers
    /\ Len(buffer) = 11
    /\ Len(printed) = 10
    /\ printed[1] = <<2, ":  ", "b">>
    /\ printed[10] = <<11, ":  ", "a">>

\* C18: creating a History instance reads the lines of its history file
\* into the buffer, sets the readline history length to history_length
\* (500 when not given) and registers the exit handler for that file; when
\* the interpreter exits, the file holds the buffer of that moment, cut to
\* its last history_length lines.
C18_HistoryEnabled ==
    /\ hLastOp = "History" =>
          /\ hTarget = Some(Val(history).history_file)
          /\ buffer = hPre \o TargetLines
          /\ rlLength = Val(history).history_length
          /\ Val(history).history_length \in {500} \cup (1 .. MaxHistLen)
          /\ exitFuncs = <<Val(history).history_file>>
    /\ (hLastOp = "exit" /\ history # None) =>
          LET file == Val(history).history_file
              n == Val(history).history_length
          IN  /\ hTarget = Some(file)
              /\ fs[file].writable =>
                    /\ Len(Val(fs[file].lines)) = Min(Len(buffer), n)
                    /\ \A j \in 1 .. Min(Len(buffer), n) :
                          Val(fs[file].lines)[j] =
                             buffer[Len(buffer) - Min(Len(buffer), n) + j]

\* the interpreter exited with more lines in the buffer than history_length
C18_Witness ==
    /\ hLastOp = "exit"
    /\ history # None
    /\ Len(buffer) > Val(history).history_length
    /\ fs[Val(history).history_file].writable
    /\ fs[Val(history).history_file].lines = Some(<<buffer[Len(buffer)]>>)

\* ------------------------------------------------------------------------
\* Properties of edir
\* ------------------------------------------------------------------------

\* the call was made without glob, omit and meta, in a script
DefaultCall ==
    /\ eLastOp = "edir"
    /\ eArgs = DefaultArgs
    /\ ~eInteractive

\* C19: called with an object and nothing else, not in interactive mode,
\* edir returns exactly the list the builtin dir returns for the object:
\* the same names in the same order.
C19_EdirMatchesDir ==
    DefaultCall => eResult = Returned(original_dir(eObj))

\* the glob of the call has no "!" or "=" prefix, and no names are omitted
\* for being magic
PlainGlobCall ==
    /\ eLastOp = "edir"
    /\ ~startswith(eArgs.glob, <<"!">>)
    /\ ~startswith(eArgs.glob, <<"=">>)
    /\ eArgs.omit = Some(0)
    /\ eArgs.dunders = None

\* name is to be kept under the glob of the call
Matches(name) ==
    LET g == casefold(eArgs.glob)
        n == casefold(name)
    IN  IF g = <<>> THEN TRUE
        ELSE IF \E i \in DOMAIN g : g[i] \in {"*", "?", "["}
        THEN fnmatchcase(n, g)
        ELSE \E i \in 1 .. Len(n), j \in 1 .. Len(n) : SubSeq(n, i, j) = g

\* C20: the glob filter keeps exactly the names that match, in their
\* order: a glob with one of "*", "?", "[" is matched against the whole
\* name as fnmatchcase does, a glob without them as a substring, the empty
\* glob keeps every name, and glob and name are case-folded before they
\* are compared.
C20_GlobKeepsMatches ==
    PlainGlobCall =>
       eResult = Returned(SelectSeq(_getattrnames(eObj, eArgs.meta), Matches))

\* a set matched without regard to case kept one name of two
C20_Witness ==
    /\ PlainGlobCall
    /\ eArgs.glob = <<"[", "A", "]", "b">>
    /\ ~eArgs.meta
    /\ set(eObj) = { <<"A", "b">>, <<"b", "a">> }
    /\ eResult = Returned(<< <<"A", "b">> >>)

\* a call with a glob, no names omitted for being magic
GlobCall ==
    /\ eLastOp = "edir"
    /\ eArgs.glob # <<>>
    /\ eArgs.omit = Some(0)
    /\ eArgs.dunders = None

\* the glob of the call taken apart: whether it begins with "!", whether
\* "=" comes first or right after the "!", and the pattern left
Reversed == Head(eArgs.glob) = "!"

AfterBang == IF Reversed THEN Tail(eArgs.glob) ELSE eArgs.glob

CaseSensitive == AfterBang # <<>> /\ Head(AfterBang) = "="

Pattern == IF CaseSensitive THEN Tail(AfterBang) ELSE AfterBang

\* name matches the pattern of the call: as fnmatchcase does when the
\* pattern has one of "*", "?", "[", else as a substring; both case-folded
\* unless the match is case-sensitive
Hit(name) ==
    LET pat == IF CaseSensitive THEN Pattern ELSE casefold(Pattern)
        n == IF CaseSensitive THEN name ELSE casefold(name)
    IN  IF pat = <<>> THEN TRUE
        ELSE IF \E i \in DOMAIN pat : pat[i] \in {"*", "?", "["}
        THEN fnmatchcase(n, pat)
        ELSE \E i \in 1 .. Len(n), j \in 1 .. Len(n) : SubSeq(n, i, j) = pat

KeptByGlob(name) == IF Reversed THEN ~Hit(name) ELSE Hit(name)

\* C21: a glob beginning with "!" or "!=" returns exactly the names that do
\* not match the rest of the glob, a glob beginning with "=" or "!=" is
\* matched with regard to case, and the prefix is not part of the pattern;
\* for a pattern p without prefix the results for p and for "!" followed by
\* p have no name in common and together hold every name.
C21_PrefixReversesAndCase ==
    GlobCall =>
       LET names == _getattrnames(eObj, eArgs.meta)
           negated == edir(eObj, <<"!">> \o eArgs.glob, eArgs.meta, eArgs.omit, <<>>)
       IN  /\ eResult = Returned(SelectSeq(names, KeptByGlob))
           /\ (~Reversed /\ ~CaseSensitive) =>
                 /\ negated.raised = "none"
                 /\ set(eResult.names) \cap set(negated.names) = {}
                 /\ set(eResult.names) \cup set(negated.names) = set(names)

\* a reversed case-sensitive glob kept the name that differs by case only
C21_Witness ==
    /\ GlobCall
    /\ eArgs.glob = <<"!", "=", "a", "*">>
    /\ ~eArgs.meta
    /\ set(eObj) = { <<"a">>, <<"A", "b">> }
    /\ eResult = Returned(<< <<"A", "b">> >>)

\* the call edir(obj, dunders=v) was made, in a script
DundersCall(v) ==
    /\ eLastOp = "edir"
    /\ eArgs = [DefaultArgs EXCEPT !.dunders = Some(v)]
    /\ ~eInteractive

\* name starts with "__" and ends with "__"
StartsAndEndsWithDunder(name) ==
    /\ Len(name) >= 2
    /\ name[1] = "_" /\ name[2] = "_"
    /\ name[Len(name) - 1] = "_" /\ name[Len(name)] = "_"

NoDunder(name) == ~StartsAndEndsWithDunder(name)

\* C22: edir(obj, dunders=False) returns the attribute names of obj
\* without the names that start and end with "__"; with a true value it
\* returns them all.
C22_DundersKeyword ==
    /\ DundersCall(FALSE) =>
          eResult = Returned(SelectSeq(_getattrnames(eObj, FALSE), NoDunder))
    /\ DundersCall(TRUE) =>
          eResult = Returned(_getattrnames(eObj, FALSE))

\* a call with omit given
OmitCall ==
    /\ eLastOp = "edir"
    /\ eArgs.omit # None
    /\ eArgs.dunders = None

NoUnderscoreFirst(name) == name = <<>> \/ name[1] # "_"

\* C23: omit=0 returns the names unchanged, omit=1 drops exactly the names
\* that start and end with "__", omit=2 drops exactly the names that start
\* with "_", any other value raises ValueError; the names kept stay in
\* their order, and what omit=2 returns is among what omit=1 returns.
C23_OmitLevels ==
    OmitCall =>
       LET names == _filter(_getattrnames(eObj, eArgs.meta), eArgs.glob)
           level == Val(eArgs.omit)
           level1 == edir(eObj, eArgs.glob, eArgs.meta, Some(1), <<>>)
       IN  /\ level = 0 => eResult = Returned(names)
           /\ level = 1 => eResult = Returned(SelectSeq(names, NoDunder))
           /\ level = 2 =>
                 /\ eResult = Returned(SelectSeq(names, NoUnderscoreFirst))
                 /\ set(eResult.names) \subseteq set(level1.names)
           /\ level \notin {0, 1, 2} => eResult = Raised("ValueError")

\* omit=1 dropped a dunder name and kept a name that only ends with "__"
C23_Witness ==
    /\ OmitCall
    /\ eArgs.omit = Some(1)
    /\ eArgs.glob = <<>>
    /\ ~eArgs.meta
    /\ set(eObj) = { <<"_", "_", "b", "_", "_">>, <<"a", "_", "_">> }
    /\ eResult = Returned(<< <<"a", "_", "_">> >>)

====
